---------------------------- MODULE Spec2Model ----------------------------
(***************************************************************************)
(* Hook-execution core of ayi-rs: the uncomment text engine, the uncomment *)
(* and mkinitcpio command parsers, the hook bodies and the caller /        *)
(* mountpoint guard.                                                       *)
(*                                                                         *)
(* Rust strings are sequences of one-character strings, so that substring  *)
(* search, replacement, tokenisation and line splitting are computed the   *)
(* way the code computes them.                                             *)
(***************************************************************************)
EXTENDS Naturals, Sequences, FiniteSets, TLC

VARIABLES
    pc,             \* position of the running call
    cmd,            \* hook command string
    caller,         \* Caller
    root_location,  \* mountpoint handed to the hook
    fs,             \* content of the target files, by path
    fs0,            \* content of the target files before the call
    uc,             \* MetaUncomment.uc
    original,       \* uncomment_text_*: original
    marker,         \* uncomment_text_*: marker
    key,            \* uncomment_text_*: key
    c,              \* uncomment_text_all: whitespace width
    ret,            \* value returned by the call
    out,            \* lines printed to standard output
    warns,          \* warnings printed to standard error
    hook,           \* static metadata of the hook seen by the guard
    app,            \* number of the engine application in a chain
    prev,           \* the earlier applications of a chain
    mk,             \* value of parse(cmd) inside mkinitcpio
    steps,          \* the calls the dispatcher has made, in order
    entry,          \* the entry point called: apply_hook or validate_hook
    mkmeta,         \* the metadata the mkinitcpio wrapper declares
    cwd,            \* working directory of the process
    readonly        \* paths of the files that cannot be written

vars == <<pc, cmd, caller, root_location, fs, fs0, uc, original, marker, key,
          c, ret, out, warns, hook, app, prev, mk, steps, entry,
          mkmeta, cwd, readonly>>

-----------------------------------------------------------------------------
(* Bounds of the model *)

\* lines a document of the once-mode specification is built from
MaxOnceLines == 2
\* fragments a document of the all-mode specification is built from
MaxAllFrags == 3
\* argument words of a command of the uncomment parsing specification
MaxUncArgs == 5
\* argument words of a command of the mkinitcpio specification
MaxMkArgs == 3

-----------------------------------------------------------------------------
(* Values *)

NoVal == [kind |-> "None"]
Ok(v) == [kind |-> "Ok", val |-> v]
Err(e, m) == [kind |-> "Err", err |-> e, msg |-> m]
Panic == [kind |-> "Panic"]

IsOk(r) == r.kind = "Ok"
IsErr(r) == r.kind = "Err"

Min(S) == CHOOSE x \in S : \A y \in S : x <= y

-----------------------------------------------------------------------------
(* str primitives of the Rust standard library *)

\* " ".repeat(n)
Spaces(n) == [i \in 1..n |-> " "]

\* whether p occurs in s at index i (1-based)
OccursAt(s, p, i) ==
    /\ i >= 1
    /\ i + Len(p) - 1 <= Len(s)
    /\ \A j \in 1..Len(p) : s[i + j - 1] = p[j]

\* index of the first occurrence of p in s at or after from, 0 when none
Find(s, p, from) ==
    LET cands == {i \in from..(Len(s) + 1) : OccursAt(s, p, i)}
    IN  IF cands = {} THEN 0 ELSE Min(cands)

\* str::contains
Contains(s, p) == Find(s, p, 1) # 0

\* str::replacen from index i on: the first n non-overlapping matches, left
\* to right; an empty pattern matches at every character boundary
RECURSIVE ReplaceFrom(_, _, _, _, _)
ReplaceFrom(s, pat, to, i, n) ==
    IF n = 0 THEN SubSeq(s, i, Len(s))
    ELSE IF pat = <<>>
         THEN IF i <= Len(s)
              THEN to \o <<s[i]>> \o ReplaceFrom(s, pat, to, i + 1, n - 1)
              ELSE to
         ELSE LET j == Find(s, pat, i)
              IN  IF j = 0 THEN SubSeq(s, i, Len(s))
                  ELSE SubSeq(s, i, j - 1) \o to
                           \o ReplaceFrom(s, pat, to, j + Len(pat), n - 1)

\* str::replacen
ReplaceN(s, pat, to, n) == ReplaceFrom(s, pat, to, 1, n)

\* str::replace: every match
Replace(s, pat, to) == ReplaceFrom(s, pat, to, 1, Len(s) + 1)

\* str::split_inclusive('\n'): the pieces of s, each ending with its "\n"
RECURSIVE SplitInclusive(_, _)
SplitInclusive(s, i) ==
    IF i > Len(s) THEN <<>>
    ELSE LET j == Find(s, <<"\n">>, i)
         IN  IF j = 0 THEN <<SubSeq(s, i, Len(s))>>
             ELSE <<SubSeq(s, i, j)>> \o SplitInclusive(s, j + 1)

\* one line of str::lines: the piece without its "\n" and without one "\r"
\* before that; a piece that has no "\n" (the last one) is returned whole
StripLineEnding(seg) ==
    IF seg # <<>> /\ seg[Len(seg)] = "\n"
    THEN LET l == SubSeq(seg, 1, Len(seg) - 1)
         IN  IF l # <<>> /\ l[Len(l)] = "\r"
             THEN SubSeq(l, 1, Len(l) - 1)
             ELSE l
    ELSE seg

\* str::lines
Lines(s) ==
    LET segs == SplitInclusive(s, 1)
    IN  [i \in 1..Len(segs) |-> StripLineEnding(segs[i])]

\* index in s of the first character of line i of s
RECURSIVE SegStart(_, _)
SegStart(segs, i) == IF i = 1 THEN 1 ELSE SegStart(segs, i - 1) + Len(segs[i - 1])

LineStart(s, i) == SegStart(SplitInclusive(s, 1), i)

-----------------------------------------------------------------------------
(* The uncomment engine *)

\* widths of whitespace the once mode tries: for i in 0..5
OnceWidths == 5

\* format!("{marker}{whitespace}{key}")
CommentPattern(m, w, k) == m \o Spaces(w) \o k

\* the not-found error of the once mode
NoSuchPattern == Err("HookError", "no such comment pattern")

\* the scan of uncomment_text_once from line i on
RECURSIVE OnceScan(_, _, _, _, _)
OnceScan(orig, lines, m, k, i) ==
    IF i > Len(lines) THEN NoSuchPattern
    ELSE LET line == lines[i]
             ws == {w \in 0..(OnceWidths - 1) : Contains(line, CommentPattern(m, w, k))}
         IN  IF ws # {}
             THEN LET pattern == CommentPattern(m, Min(ws), k)
                      line_uncommented == ReplaceN(line, pattern, k, 1)
                  IN  Ok(ReplaceN(orig, line, line_uncommented, 1))
             ELSE OnceScan(orig, lines, m, k, i + 1)

\* uncomment_text_once
UncommentTextOnce(orig, m, k) == OnceScan(orig, Lines(orig), m, k, 1)

\* AllRound replacing the first occurrence only
AllRoundFirstOnly(orig, m, k, w) == ReplaceN(orig, CommentPattern(m, w, k), k, 1)

\* one round of the loop of uncomment_text_all at width w:
\* original.replace(&pattern, key)
AllRound(orig, m, k, w) == Replace(orig, CommentPattern(m, w, k), k)

\* A width beyond the length of the document builds a pattern longer than the
\* document, which no round can find: the loop is followed up to this width
\* and no further.
WidthCap(orig) == Len(orig) + 1


\* AllStep with the comparison inverted: break when the round changed nothing
AllStepInverted(orig, m, k, w) ==
    LET uncommented == AllRound(orig, m, k, w)
    IN  IF orig = uncommented
        THEN [brk |-> TRUE, val |-> uncommented, c |-> w]
        ELSE [brk |-> FALSE, val |-> orig, c |-> w + 1]

\* the body of the loop of uncomment_text_all at width w: break with the
\* replaced text when the round changed the document, else widen by one
AllStep(orig, m, k, w) ==
    LET uncommented == AllRound(orig, m, k, w)
    IN  IF orig # uncommented
        THEN [brk |-> TRUE, val |-> uncommented, c |-> w]
        ELSE [brk |-> FALSE, val |-> orig, c |-> w + 1]

-----------------------------------------------------------------------------
(* Tokenisers *)

\* the characters shlex ends a word at
ShlexSpace == {" ", "\t", "\n"}

\* the characters str::split_whitespace splits at, among those of the model
WhiteSpace == {" ", "\t", "\n", "\r"}

\* Shlex::next up to the first character of a word: whitespace is skipped and
\* a "#" starts a comment that runs to the end of the line; 0 at the end
RECURSIVE ShlexSkip(_, _)
ShlexSkip(s, i) ==
    IF i > Len(s) THEN 0
    ELSE IF s[i] \in ShlexSpace THEN ShlexSkip(s, i + 1)
    ELSE IF s[i] = "#"
         THEN LET j == Find(s, <<"\n">>, i + 1)
              IN  IF j = 0 THEN 0 ELSE ShlexSkip(s, j + 1)
         ELSE i

\* Shlex::parse_single from index i, after the opening quote
RECURSIVE ShlexSingle(_, _, _)
ShlexSingle(s, i, acc) ==
    IF i > Len(s) THEN [ok |-> FALSE, word |-> acc, next |-> i]
    ELSE IF s[i] = "'" THEN [ok |-> TRUE, word |-> acc, next |-> i + 1]
    ELSE ShlexSingle(s, i + 1, Append(acc, s[i]))

\* Shlex::parse_double from index i, after the opening quote. A backslash
\* keeps its meaning before $, a backquote, a double quote and a backslash;
\* the commands of the model hold no backquote.
RECURSIVE ShlexDouble(_, _, _)
ShlexDouble(s, i, acc) ==
    IF i > Len(s) THEN [ok |-> FALSE, word |-> acc, next |-> i]
    ELSE IF s[i] = "\"" THEN [ok |-> TRUE, word |-> acc, next |-> i + 1]
    ELSE IF s[i] = "\\"
         THEN IF i + 1 > Len(s) THEN [ok |-> FALSE, word |-> acc, next |-> i + 1]
              ELSE IF s[i + 1] \in {"$", "\"", "\\"}
                   THEN ShlexDouble(s, i + 2, Append(acc, s[i + 1]))
              ELSE IF s[i + 1] = "\n" THEN ShlexDouble(s, i + 2, acc)
              ELSE ShlexDouble(s, i + 2, acc \o <<"\\", s[i + 1]>>)
    ELSE ShlexDouble(s, i + 1, Append(acc, s[i]))

\* Shlex::parse_word from the character at index i
RECURSIVE ShlexWord(_, _, _)
ShlexWord(s, i, acc) ==
    IF i > Len(s) THEN [ok |-> TRUE, word |-> acc, next |-> i]
    ELSE IF s[i] \in ShlexSpace THEN [ok |-> TRUE, word |-> acc, next |-> i + 1]
    ELSE IF s[i] = "\""
         THEN LET q == ShlexDouble(s, i + 1, acc)
              IN  IF q.ok THEN ShlexWord(s, q.next, q.word) ELSE q
    ELSE IF s[i] = "'"
         THEN LET q == ShlexSingle(s, i + 1, acc)
              IN  IF q.ok THEN ShlexWord(s, q.next, q.word) ELSE q
    ELSE IF s[i] = "\\"
         THEN IF i + 1 > Len(s) THEN [ok |-> FALSE, word |-> acc, next |-> i + 1]
              ELSE IF s[i + 1] = "\n" THEN ShlexWord(s, i + 2, acc)
              ELSE ShlexWord(s, i + 2, Append(acc, s[i + 1]))
    ELSE ShlexWord(s, i + 1, Append(acc, s[i]))

\* the words of s from index i on; ok is FALSE when a quote or an escape is
\* left open
RECURSIVE ShlexFrom(_, _)
ShlexFrom(s, i) ==
    LET j == ShlexSkip(s, i)
    IN  IF j = 0 THEN [ok |-> TRUE, parts |-> <<>>]
        ELSE LET w == ShlexWord(s, j, <<>>)
             IN  IF ~w.ok THEN [ok |-> FALSE, parts |-> <<>>]
                 ELSE LET rest == ShlexFrom(s, w.next)
                      IN  [ok |-> rest.ok, parts |-> <<w.word>> \o rest.parts]

\* shlex::split: ok is FALSE for None
ShlexSplit(s) == ShlexFrom(s, 1)

\* str::split_whitespace from index i on
RECURSIVE SplitWhitespaceFrom(_, _, _)
SplitWhitespaceFrom(s, i, acc) ==
    IF i > Len(s) THEN (IF acc = <<>> THEN <<>> ELSE <<acc>>)
    ELSE IF s[i] \in WhiteSpace
         THEN (IF acc = <<>> THEN <<>> ELSE <<acc>>) \o SplitWhitespaceFrom(s, i + 1, <<>>)
         ELSE SplitWhitespaceFrom(s, i + 1, Append(acc, s[i]))

\* str::split_whitespace
SplitWhitespace(s) == SplitWhitespaceFrom(s, 1, <<>>)

\* str::split_once('='): <<key, value>>, or <<>> for None
SplitOnceEq(t) ==
    LET j == Find(t, <<"=">>, 1)
    IN  IF j = 0 THEN <<>>
        ELSE <<SubSeq(t, 1, j - 1), SubSeq(t, j + 1, Len(t))>>

\* the words w joined by single spaces
RECURSIVE JoinWords(_)
JoinWords(w) ==
    IF w = <<>> THEN <<>>
    ELSE IF Len(w) = 1 THEN w[1]
    ELSE w[1] \o <<" ">> \o JoinWords(Tail(w))

\* every sequence of at most n elements of S
RECURSIVE SeqsUpTo(_, _)
SeqsUpTo(S, n) ==
    IF n = 0 THEN {<<>>}
    ELSE LET shorter == SeqsUpTo(S, n - 1)
         IN  shorter \cup {Append(q, x) : q \in shorter, x \in S}

-----------------------------------------------------------------------------
(* Hook keys *)

UNCOMMENT == <<"@", "u", "n", "c", "o", "m", "m", "e", "n", "t">>
UNCOMMENT_PRINT == <<"@", "u", "n", "c", "o", "m", "m", "e", "n", "t", "-", "p", "r", "i", "n", "t">>
UNCOMMENT_ALL == <<"@", "u", "n", "c", "o", "m", "m", "e", "n", "t", "-", "a", "l", "l">>
UNCOMMENT_ALL_PRINT ==
    <<"@", "u", "n", "c", "o", "m", "m", "e", "n", "t", "-", "a", "l", "l", "-", "p", "r", "i", "n", "t">>
MKINITCPIO == <<"@", "m", "k", "i", "n", "i", "t", "c", "p", "i", "o">>
MKINITCPIO_PRINT ==
    <<"@", "m", "k", "i", "n", "i", "t", "c", "p", "i", "o", "-", "p", "r", "i", "n", "t">>

\* a key no hook is registered under
BogusKey == <<"@", "b", "o", "g", "u", "s">>

\* the key the dispatcher reads: the first whitespace-separated word
HookKey(s) ==
    LET hook_parts == SplitWhitespace(s)
    IN  IF hook_parts = <<>> THEN <<>> ELSE hook_parts[1]

-----------------------------------------------------------------------------
(* The uncomment hook: parsing *)

MARKER_KEYWORD == <<"m", "a", "r", "k", "e", "r">>

\* parse_uncomment accepting any command of three or more words, the last
\* word being the file
ParseUncommentLax(hook_cmd) ==
    LET sp == ShlexSplit(hook_cmd)
        parts == sp.parts
    IN  IF ~sp.ok \/ Len(parts) < 3 THEN Err("BadHookCmd", "bad cmd")
        ELSE Ok([marker |-> <<"#">>, pattern |-> parts[2],
                 file |-> parts[Len(parts)],
                 mode |-> "Once", print_only |-> FALSE])

\* parse_uncomment
ParseUncomment(hook_cmd) ==
    LET sp == ShlexSplit(hook_cmd)
        parts == sp.parts
        l == Len(parts)
    IN  IF ~sp.ok THEN Err("BadHookCmd", "bad cmd")
        ELSE IF l < 3 THEN Err("BadHookCmd", "expect at least 2 arguments")
        ELSE IF parts[1] \notin {UNCOMMENT, UNCOMMENT_PRINT, UNCOMMENT_ALL,
                                 UNCOMMENT_ALL_PRINT}
             THEN Err("AliRsBug", "got bad hook cmd")
        ELSE LET mode == IF parts[1] \in {UNCOMMENT, UNCOMMENT_PRINT}
                         THEN "Once" ELSE "All"
                 print_only == parts[1] \in {UNCOMMENT_PRINT, UNCOMMENT_ALL_PRINT}
             IN  IF l = 3
                 THEN Ok([marker |-> <<"#">>, pattern |-> parts[2],
                          file |-> parts[3],
                          mode |-> mode, print_only |-> print_only])
                 ELSE IF l = 5
                      THEN IF parts[3] # MARKER_KEYWORD
                           THEN Err("BadHookCmd", "unexpected argument, expecting 2nd argument to be marker")
                           ELSE Ok([marker |-> parts[4], pattern |-> parts[2],
                                    file |-> parts[5],
                                    mode |-> mode, print_only |-> print_only])
                      ELSE Err("BadHookCmd", "bad cmd parts")

\* MetaUncomment::try_parse: the value returned and the new self.uc
TryParseUncomment(s, old_uc) ==
    LET parsed == ParseUncomment(s)
    IN  IF IsOk(parsed)
        THEN [res |-> Ok(<<>>), uc |-> [kind |-> "Some", val |-> parsed.val]]
        ELSE [res |-> parsed, uc |-> old_uc]

\* words the commands of the parsing specification are built from: a plain
\* word, the keyword, a quoted word with a space, a quoted "#", an unquoted
\* "#" (which starts a comment)
UncArgWords ==
    { <<"P">>, MARKER_KEYWORD, <<"\"", "a", " ", "b", "\"">>,
      <<"'", "#", "'">>, <<"#">> }

UncParseKeys == {UNCOMMENT, UNCOMMENT_ALL_PRINT, BogusKey}

UncParseCmds ==
    {JoinWords(<<k>> \o args) : k \in UncParseKeys, args \in SeqsUpTo(UncArgWords, MaxUncArgs)}
        \cup {UNCOMMENT \o <<" ", "P", " ", "'", "f">>}

InitUncParse ==
    /\ pc = "parse_call"
    /\ cmd \in UncParseCmds
    /\ uc = NoVal
    /\ caller = "Cli" /\ root_location = <<>> /\ fs = <<>> /\ fs0 = <<>>
    /\ original = <<>> /\ marker = <<>> /\ key = <<>> /\ c = 0 /\ ret = NoVal
    /\ out = <<>> /\ warns = <<>> /\ hook = NoVal /\ app = 0 /\ prev = <<>>
    /\ mk = NoVal
    /\ steps = <<>> /\ entry = NoVal /\ mkmeta = NoVal
    /\ cwd = NoVal /\ readonly = {}

\* MetaUncomment::try_parse(cmd) on a blank hook
TryParse ==
    /\ pc = "parse_call"
    /\ LET t == TryParseUncomment(cmd, uc)
       IN  /\ ret' = t.res
           /\ uc' = t.uc
    /\ pc' = "parse_done"
    /\ UNCHANGED <<cmd, caller, root_location, fs, fs0, original, marker, key,
                   c, out, warns, hook, app, prev, mk, steps, entry, mkmeta, cwd,
                   readonly>>

NextUncParse == TryParse

SpecUncParse == InitUncParse /\ [][NextUncParse]_vars

\* the quote-aware token list of the command
CmdTokens == ShlexSplit(cmd).parts

\* whether the token list has one of the two accepted shapes
UncShapeOk ==
    /\ ShlexSplit(cmd).ok
    /\ \/ Len(CmdTokens) = 3
       \/ Len(CmdTokens) = 5 /\ CmdTokens[3] = MARKER_KEYWORD

\* C8: parsing an uncomment command succeeds only with exactly 3 tokens (the
\* marker then being "#") or exactly 5 tokens with the literal marker as
\* third; any other token list is rejected and stores no configuration.
C8_UncommentParseShapes ==
    pc = "parse_done" =>
        /\ IsOk(ret) => UncShapeOk
        /\ ~UncShapeOk => IsErr(ret) /\ uc = NoVal
        /\ (~UncShapeOk /\ ShlexSplit(cmd).ok /\ Len(CmdTokens) >= 1
              /\ CmdTokens[1] # BogusKey) => ret.err = "BadHookCmd"
        /\ IsOk(ret) =>
              /\ uc.kind = "Some"
              /\ uc.val.pattern = CmdTokens[2]
              /\ uc.val.file = CmdTokens[Len(CmdTokens)]
              /\ uc.val.marker = IF Len(CmdTokens) = 3 THEN <<"#">> ELSE CmdTokens[4]

\* a command of four tokens with a known key was rejected
C8_Witness ==
    /\ pc = "parse_done"
    /\ ShlexSplit(cmd).ok
    /\ Len(CmdTokens) = 4
    /\ CmdTokens[1] = UNCOMMENT
    /\ ret.kind = "Err"
    /\ uc = NoVal

-----------------------------------------------------------------------------
(* The caller / mountpoint guard *)

Callers == {"ManifestChroot", "ManifestPostInstall", "Cli"}

\* all_callers()
AllCallers == Callers

WarnGotRoot == "got / as mountpoint"
WarnHint == "hint: use --mountpoint flag to specify non-/ mountpoint"
WarnNonPreferred == "non-preferred caller {caller}"
WarnPreferred == "preferred callers: {preferred_callers:?}"

ErrRootForManifest == Err("AliRsBug", "Got / as mountpoint for hook")
ErrNeedsMountpoint == Err("BadHookCmd", "hook is to be run with a mountpoint")

\* the warnings of the check of the preferred callers
PreferredWarns(h, clr) ==
    IF clr \notin h.preferred_callers
    THEN <<WarnNonPreferred, WarnPreferred>>
    ELSE <<>>

\* handle_no_mountpoint without the check of abort_if_no_mount
HandleNoMountpointNoAbort(h, clr, mountpoint) ==
    IF mountpoint = <<"/">> /\ clr # "Cli"
    THEN [res |-> ErrRootForManifest, warns |-> <<WarnGotRoot>>]
    ELSE [res |-> Ok(<<>>),
          warns |-> (IF mountpoint = <<"/">> THEN <<WarnGotRoot, WarnHint>> ELSE <<>>)
                        \o PreferredWarns(h, clr)]

\* handle_no_mountpoint with a non-preferred caller made fatal
HandleNoMountpointStrict(h, clr, mountpoint) ==
    IF clr \notin h.preferred_callers
    THEN [res |-> Err("BadHookCmd", "non-preferred caller"), warns |-> <<>>]
    ELSE HandleNoMountpointNoAbort(h, clr, mountpoint)

\* handle_no_mountpoint: the value returned and the warnings printed
HandleNoMountpoint(h, clr, mountpoint) ==
    IF mountpoint = <<"/">>
    THEN IF clr \in {"ManifestPostInstall", "ManifestChroot"}
         THEN [res |-> ErrRootForManifest, warns |-> <<WarnGotRoot>>]
         ELSE IF h.abort_if_no_mount
              THEN [res |-> ErrNeedsMountpoint, warns |-> <<WarnGotRoot, WarnHint>>]
              ELSE [res |-> Ok(<<>>),
                    warns |-> <<WarnGotRoot, WarnHint>> \o PreferredWarns(h, clr)]
    ELSE [res |-> Ok(<<>>), warns |-> PreferredWarns(h, clr)]

-----------------------------------------------------------------------------
(* The mkinitcpio hook *)

ALIASES_ROOT_LVM ==
    { <<"r", "o", "o", "t", "-", "o", "n", "-", "l", "v", "m">>,
      <<"r", "o", "o", "t", "_", "o", "n", "_", "l", "v", "m">>,
      <<"r", "o", "o", "t", "-", "l", "v", "m">>,
      <<"r", "o", "o", "t", "_", "l", "v", "m">>,
      <<"l", "v", "m", "-", "r", "o", "o", "t">>,
      <<"l", "v", "m", "_", "r", "o", "o", "t">>,
      <<"l", "v", "m">> }

ALIASES_ROOT_LUKS ==
    { <<"r", "o", "o", "t", "-", "o", "n", "-", "l", "u", "k", "s">>,
      <<"r", "o", "o", "t", "_", "o", "n", "_", "l", "u", "k", "s">>,
      <<"r", "o", "o", "t", "-", "l", "u", "k", "s">>,
      <<"r", "o", "o", "t", "_", "l", "u", "k", "s">>,
      <<"l", "u", "k", "s", "-", "r", "o", "o", "t">>,
      <<"l", "u", "k", "s", "_", "r", "o", "o", "t">>,
      <<"l", "u", "k", "s">> }

ALIASES_ROOT_LVM_ON_LUKS ==
    { <<"r", "o", "o", "t", "-", "o", "n", "-", "l", "v", "m", "-", "o", "n", "-", "l", "u", "k", "s">>,
      <<"r", "o", "o", "t", "_", "o", "n", "_", "l", "v", "m", "_", "o", "n", "_", "l", "u", "k", "s">>,
      <<"l", "v", "m", "-", "o", "n", "-", "l", "u", "k", "s", "-", "r", "o", "o", "t">>,
      <<"l", "v", "m", "_", "o", "n", "_", "l", "u", "k", "s", "_", "r", "o", "o", "t">>,
      <<"r", "o", "o", "t", "-", "l", "v", "m", "-", "o", "n", "-", "l", "u", "k", "s">>,
      <<"r", "o", "o", "t", "_", "l", "v", "m", "_", "o", "n", "_", "l", "u", "k", "s">>,
      <<"l", "v", "m", "-", "o", "n", "-", "l", "u", "k", "s">>,
      <<"l", "v", "m", "_", "o", "n", "_", "l", "u", "k", "s">> }

ALIASES_ROOT_LUKS_ON_LVM ==
    { <<"r", "o", "o", "t", "-", "o", "n", "-", "l", "u", "k", "s", "-", "o", "n", "-", "l", "v", "m">>,
      <<"r", "o", "o", "t", "_", "o", "n", "_", "l", "u", "k", "s", "_", "o", "n", "_", "l", "v", "m">>,
      <<"l", "u", "k", "s", "-", "o", "n", "-", "l", "v", "m", "-", "r", "o", "o", "t">>,
      <<"l", "u", "k", "s", "_", "o", "n", "_", "l", "v", "m", "_", "r", "o", "o", "t">>,
      <<"r", "o", "o", "t", "-", "l", "u", "k", "s", "-", "o", "n", "-", "l", "v", "m">>,
      <<"r", "o", "o", "t", "_", "l", "u", "k", "s", "_", "o", "n", "_", "l", "v", "m">>,
      <<"l", "u", "k", "s", "-", "o", "n", "-", "l", "v", "m">>,
      <<"l", "u", "k", "s", "_", "o", "n", "_", "l", "v", "m">> }

KEY_BOOT_HOOK == <<"b", "o", "o", "t", "_", "h", "o", "o", "k">>
KEY_BINARIES == <<"b", "i", "n", "a", "r", "i", "e", "s">>
KEY_HOOKS == <<"h", "o", "o", "k", "s">>

\* decide_boot_hooks
DecideBootHooks(v) ==
    IF v \in ALIASES_ROOT_LVM THEN Ok("Lvm")
    ELSE IF v \in ALIASES_ROOT_LUKS THEN Ok("Luks")
    ELSE IF v \in ALIASES_ROOT_LVM_ON_LUKS THEN Ok("LvmOnLuks")
    ELSE IF v \in ALIASES_ROOT_LUKS_ON_LVM THEN Ok("LuksOnLvm")
    ELSE Err("BadHookCmd", "no such boot_hook preset")

\* preset: the hooks string of a preset, named here by the constant that
\* holds it
Preset(t) ==
    CASE t = "Lvm" -> <<"M", "K", "I", "N", "I", "T", "C", "P", "I", "O", "_", "P", "R", "E", "S", "E", "T", "_", "L", "V", "M", "_", "R", "O", "O", "T">>
      [] t = "Luks" -> <<"M", "K", "I", "N", "I", "T", "C", "P", "I", "O", "_", "P", "R", "E", "S", "E", "T", "_", "L", "U", "K", "S", "_", "R", "O", "O", "T">>
      [] t = "LvmOnLuks" -> <<"M", "K", "I", "N", "I", "T", "C", "P", "I", "O", "_", "P", "R", "E", "S", "E", "T", "_", "L", "V", "M", "_", "O", "N", "_", "L", "U", "K", "S", "_", "R", "O", "O", "T">>
      [] t = "LuksOnLvm" -> <<"M", "K", "I", "N", "I", "T", "C", "P", "I", "O", "_", "P", "R", "E", "S", "E", "T", "_", "L", "U", "K", "S", "_", "O", "N", "_", "L", "V", "M", "_", "R", "O", "O", "T">>

\* split_whitespace_to_strings
SplitWhitespaceToStrings(s) == SplitWhitespace(s)

\* fmt_shell_array
FmtShellArray(arr_name, arr_elems) ==
    arr_name \o <<"=", "(">> \o JoinWords(arr_elems) \o <<")">>

\* args.iter().filter_map(|arg| arg.split_once('=')): the <<key, value>> pairs
\* of the words that hold a "="
RECURSIVE KeysVals(_)
KeysVals(args) ==
    IF args = <<>> THEN <<>>
    ELSE LET kv == SplitOnceEq(args[1])
         IN  (IF kv = <<>> THEN <<>> ELSE <<kv>>) \o KeysVals(Tail(args))

\* Mkinitcpio::default with print_only as the command key sets it
MkDefault(print_only) ==
    [boot_hook |-> NoVal, binaries |-> NoVal, hooks |-> NoVal,
     print_only |-> print_only]

Some(v) == [kind |-> "Some", val |-> v]

ErrDuplicateKey == Err("BadHookCmd", "duplicate key")
ErrExclusive ==
    Err("BadHookCmd", "boot_hook and hooks are mutually exclusive, but found both")

\* IsDuplicateKey that only remembers the keys parse acts on
IsDuplicateKeyKnownOnly(dups, k) ==
    k \in dups /\ k \in {KEY_BOOT_HOOK, KEY_BINARIES, KEY_HOOKS}

\* !dups.insert(k): whether k was seen before in this command
IsDuplicateKey(dups, k) == k \in dups

\* BothSet when the last check of parse is left out
BothSetNever(m) == FALSE

\* mkinitcpio.boot_hook.is_some() && mkinitcpio.hooks.is_some()
BothSet(m) == m.boot_hook # NoVal /\ m.hooks # NoVal

\* the for loop of parse over keys_vals from index i on, then its last check
RECURSIVE ParseLoop(_, _, _, _)
ParseLoop(kvs, i, dups, m) ==
    IF i > Len(kvs)
    THEN IF BothSet(m)
         THEN ErrExclusive
         ELSE Ok(m)
    ELSE LET k == kvs[i][1]
             v == kvs[i][2]
         IN  IF IsDuplicateKey(dups, k) THEN ErrDuplicateKey
             ELSE IF k = KEY_BOOT_HOOK
                  THEN LET boot_hook == DecideBootHooks(v)
                       IN  IF IsErr(boot_hook) THEN boot_hook
                           ELSE ParseLoop(kvs, i + 1, dups \cup {k},
                                          [m EXCEPT !.boot_hook = Some(boot_hook.val)])
             ELSE IF k = KEY_BINARIES
                  THEN ParseLoop(kvs, i + 1, dups \cup {k},
                                 [m EXCEPT !.binaries = Some(SplitWhitespaceToStrings(v))])
             ELSE IF k = KEY_HOOKS
                  THEN ParseLoop(kvs, i + 1, dups \cup {k},
                                 [m EXCEPT !.hooks = Some(SplitWhitespaceToStrings(v))])
             ELSE ParseLoop(kvs, i + 1, dups \cup {k}, m)

\* parse: Panic when shlex::split gives None, which parse unwraps
Parse(s) ==
    LET sp == ShlexSplit(s)
        parts == sp.parts
    IN  IF ~sp.ok THEN Panic
        ELSE IF Len(parts) < 2 THEN Err("BadHookCmd", "need at least 1 argument")
        ELSE IF parts[1] \notin {MKINITCPIO_PRINT, MKINITCPIO}
             THEN Err("BadHookCmd", "unknown hook command")
        ELSE ParseLoop(KeysVals(Tail(parts)), 1, {},
                       MkDefault(parts[1] = MKINITCPIO_PRINT))

\* warn_if_no_mountpoint: the mountpoint check the chroot-aware hooks share;
\* a manifest caller must not hand over "/"
WarnIfNoMountpoint(clr, mountpoint) ==
    IF mountpoint = <<"/">> /\ clr \in {"ManifestPostInstall", "ManifestChroot"}
    THEN ErrRootForManifest
    ELSE Ok(<<>>)

ErrNotImplemented == Err("NotImplemented", "write files")

\* what mkinitcpio prints in print mode
MkPrinted(m) ==
    (IF m.binaries # NoVal
     THEN <<FmtShellArray(<<"B", "I", "N", "A", "R", "I", "E", "S">>, m.binaries.val)>>
     ELSE <<>>)
    \o (IF m.hooks # NoVal
        THEN <<FmtShellArray(<<"H", "O", "O", "K", "S">>, m.hooks.val)>>
        ELSE <<>>)

\* mkinitcpio with the configuration file written in normal mode
MkinitcpioWriting(s, clr, mountpoint, files) ==
    LET parsed == Parse(s)
    IN  IF ~IsOk(parsed) THEN [res |-> parsed, out |-> <<>>, fs |-> files]
        ELSE [res |-> Ok([hook |-> "Mkinitcpio", record |-> parsed.val]),
              out |-> <<>>,
              fs |-> [p \in DOMAIN files |-> Some(MkPrinted(parsed.val))]]

\* if m.boot_hook.is_some(): the hooks of the preset become the hooks
WithPresetHooks(m) ==
    IF m.boot_hook # NoVal
    THEN [m EXCEPT !.hooks = Some(SplitWhitespaceToStrings(Preset(m.boot_hook.val)))]
    ELSE m

\* mkinitcpio from the formatted arrays on: print mode prints and returns the
\* record, normal mode checks the mountpoint and stops at NotImplemented
MkinitcpioEmit(m, clr, mountpoint, files) ==
    IF m.print_only
    THEN [res |-> Ok([hook |-> "Mkinitcpio", record |-> m]),
          out |-> MkPrinted(m), fs |-> files]
    ELSE [res |-> (IF IsErr(WarnIfNoMountpoint(clr, mountpoint))
                   THEN WarnIfNoMountpoint(clr, mountpoint)
                   ELSE ErrNotImplemented),
          out |-> <<>>, fs |-> files]

\* mkinitcpio: the value returned, the lines printed and the files afterwards
Mkinitcpio(s, clr, mountpoint, files) ==
    LET parsed == Parse(s)
    IN  IF ~IsOk(parsed) THEN [res |-> parsed, out |-> <<>>, fs |-> files]
        ELSE MkinitcpioEmit(WithPresetHooks(parsed.val), clr, mountpoint, files)

-----------------------------------------------------------------------------
(* Documents the engine is run on *)

\* every concatenation of at most n of the pieces P
RECURSIVE ConcatUpTo(_, _)
ConcatUpTo(P, n) ==
    IF n = 0 THEN {<<>>}
    ELSE LET shorter == ConcatUpTo(P, n - 1)
         IN  shorter \cup {d \o p : d \in shorter, p \in P}

OnceLineTexts ==
    { <<"#", "P">>, <<"#", " ", "P">>,
      <<"#", " ", " ", " ", " ", " ", "P">>,
      <<"x", "#", "P", "#", "P">>, <<"P">>, <<>> }

\* "\n", "\r\n", a carriage return of the line's own before "\r\n", and none
OnceLineEndings == { <<"\n">>, <<"\r", "\n">>, <<"\r", "\r", "\n">>, <<>> }

OnceDocs ==
    ConcatUpTo({t \o e : t \in OnceLineTexts, e \in OnceLineEndings}, MaxOnceLines)

OnceMarkers == { <<"#">>, <<>> }

OnceKeys == { <<"P">>, <<"P", "\r">> }

AllFrags ==
    { <<"#", "P">>, <<"#", " ", "P">>, <<"#">>, <<"#", " ", " ", "Q">>,
      <<"Q">>, <<"\n">>, <<"P">> }

AllDocs == ConcatUpTo(AllFrags, MaxAllFrags)

AllMarkers == { <<"#">> }

AllKeys == { <<"P">>, <<"Q">>, <<"P", "Q">> }

-----------------------------------------------------------------------------
(* Once mode, called on a document *)

InitOnce ==
    /\ pc = "once_call"
    /\ original \in OnceDocs
    /\ marker \in OnceMarkers
    /\ key \in OnceKeys
    /\ cmd = <<>> /\ caller = "Cli" /\ root_location = <<>>
    /\ fs = <<>> /\ fs0 = <<>> /\ uc = NoVal /\ c = 0 /\ ret = NoVal
    /\ out = <<>> /\ warns = <<>> /\ hook = NoVal /\ app = 1 /\ prev = <<>>
    /\ mk = NoVal
    /\ steps = <<>> /\ entry = NoVal /\ mkmeta = NoVal
    /\ cwd = NoVal /\ readonly = {}

\* uncomment_text_once(original, marker, key)
OnceCall ==
    /\ pc = "once_call"
    /\ ret' = UncommentTextOnce(original, marker, key)
    /\ pc' = "once_done"
    /\ UNCHANGED <<cmd, caller, root_location, fs, fs0, uc, original, marker,
                   key, c, out, warns, hook, app, prev, mk, steps, entry, mkmeta, cwd,
                   readonly>>

NextOnce == OnceCall

SpecOnce == InitOnce /\ [][NextOnce]_vars

-----------------------------------------------------------------------------
(* All mode, called on a document and then on its own result *)

\* applications in one chain
MaxApps == 2

InitAll ==
    /\ pc = "all_loop"
    /\ original \in AllDocs
    /\ marker \in AllMarkers
    /\ key \in AllKeys
    /\ c = 0
    /\ cmd = <<>> /\ caller = "Cli" /\ root_location = <<>>
    /\ fs = <<>> /\ fs0 = <<>> /\ uc = NoVal /\ ret = NoVal
    /\ out = <<>> /\ warns = <<>> /\ hook = NoVal /\ app = 1 /\ prev = <<>>
    /\ mk = NoVal
    /\ steps = <<>> /\ entry = NoVal /\ mkmeta = NoVal
    /\ cwd = NoVal /\ readonly = {}

\* one iteration of the loop of uncomment_text_all; on break the function
\* returns Ok(uncommented)
AllIter ==
    /\ pc = "all_loop"
    /\ LET step == AllStep(original, marker, key, c)
       IN  IF step.brk
           THEN /\ pc' = "all_returned"
                /\ ret' = Ok(step.val)
                /\ c' = c
           ELSE /\ c < WidthCap(original)
                /\ c' = step.c
                /\ UNCHANGED <<pc, ret>>
    /\ UNCHANGED <<cmd, caller, root_location, fs, fs0, uc, original, marker,
                   key, out, warns, hook, app, prev, mk, steps, entry, mkmeta, cwd,
                   readonly>>

\* the caller hands the returned text to uncomment_text_all again, with the
\* same marker and a key k
AllAgain ==
    /\ pc = "all_returned"
    /\ app < MaxApps
    /\ \E k \in AllKeys :
          /\ key' = k
          /\ prev' = Append(prev, [original |-> original, key |-> key, c |-> c])
    /\ original' = ret.val
    /\ c' = 0
    /\ ret' = NoVal
    /\ pc' = "all_loop"
    /\ app' = app + 1
    /\ UNCHANGED <<cmd, caller, root_location, fs, fs0, uc, marker, out, warns,
                   hook, mk, steps, entry, mkmeta, cwd,
                   readonly>>

NextAll == AllIter \/ AllAgain

SpecAll == InitAll /\ [][NextAll]_vars

\* the loop is a plain sequential loop: an iteration that can run does run
SpecAllFair == SpecAll /\ WF_vars(AllIter)

-----------------------------------------------------------------------------
(* Claims about the once mode *)

\* lines of the document that hold marker + w spaces + key for a w in 0..4
OnceMatchingLines ==
    LET lines == Lines(original)
    IN  {i \in 1..Len(lines) :
            \E w \in 0..4 : Contains(lines[i], CommentPattern(marker, w, key))}

\* the documents in which one occurrence of the pattern, in the earliest
\* matching line and at the smallest matching width, is replaced by the key
\* and nothing else differs from the original
OnceExpected ==
    LET lines == Lines(original)
        i == Min(OnceMatchingLines)
        line == lines[i]
        w == Min({v \in 0..4 : Contains(line, CommentPattern(marker, v, key))})
        pat == CommentPattern(marker, w, key)
        start == LineStart(original, i)
    IN  { SubSeq(original, 1, start + p - 2) \o key
              \o SubSeq(original, start + p - 1 + Len(pat), Len(original)) :
          p \in {q \in 1..(Len(line) + 1) : OccursAt(line, pat, q)} }

\* C1: once mode returns the document with exactly one occurrence replaced, in
\* the earliest matching line at the smallest matching width, every other line
\* and the rest of that line as in the input; and the 'no such comment
\* pattern' error when no line matches at any width 0..4.
C1_OnceReplacesInEarliestLine ==
    pc = "once_done" =>
        IF OnceMatchingLines = {}
        THEN ret = NoSuchPattern
        ELSE IsOk(ret) /\ ret.val \in OnceExpected

-----------------------------------------------------------------------------
(* Claims about the all mode *)

\* whether the round at width w changes the document the loop runs on
ChangesAt(w) == AllRound(original, marker, key, w) # original

\* whether a width exists whose round changes the document
SomeWidthChanges == \E w \in 0..WidthCap(original) : ChangesAt(w)

\* the second application of a chain, run with the key of the first
SecondSameKey == app = 2 /\ key = prev[1].key

\* C2: the second application, with the same marker and pattern, returns and
\* leaves the text unchanged, no occurrence being left at the width the first
\* application matched.
C2_SecondApplicationIdempotent ==
    SecondSameKey =>
        /\ SomeWidthChanges \/ pc = "all_returned"
        /\ pc = "all_returned" => ret.val = original
        /\ ~Contains(original, CommentPattern(marker, prev[1].c, key))

C3_Safe ==
    /\ pc = "all_returned" =>
          /\ IsOk(ret)
          /\ ChangesAt(c)
          /\ ret.val = AllRound(original, marker, key, c)
    /\ pc = "all_loop" => ret = NoVal /\ \A w \in 0..(c - 1) : ~ChangesAt(w)
    /\ ~SomeWidthChanges => pc = "all_loop"

\* C3: the all mode returns exactly when a width exists whose replacement
\* changes the document; while no width changes it the loop neither returns a
\* result nor an error, and when a width does change it the loop gets there.
C3_ReturnsIffSomeWidthChanges ==
    /\ []C3_Safe
    /\ (pc = "all_loop" /\ SomeWidthChanges) ~> (pc = "all_returned")

\* the loop has tried every width that could match a non-empty document and is
\* still running
C3_Witness ==
    /\ pc = "all_loop"
    /\ original # <<>>
    /\ c = WidthCap(original)
    /\ ~SomeWidthChanges

-----------------------------------------------------------------------------
(* The guard, called on a hook's metadata *)

\* static metadata of a hook, as the guard reads it
HookMetas ==
    [ base_key : {"@uncomment", "@mkinitcpio"},
      mode : {"Normal", "Print"},
      abort_if_no_mount : BOOLEAN,
      preferred_callers : SUBSET Callers ]

Mountpoints == { <<"/">>, <<"/", "m", "n", "t">>, <<"/", "/">>, <<>> }

InitGuard ==
    /\ pc = "guard_call"
    /\ hook \in HookMetas
    /\ caller \in Callers
    /\ root_location \in Mountpoints
    /\ cmd = <<>> /\ fs = <<>> /\ fs0 = <<>> /\ uc = NoVal
    /\ original = <<>> /\ marker = <<>> /\ key = <<>> /\ c = 0 /\ ret = NoVal
    /\ out = <<>> /\ warns = <<>> /\ app = 0 /\ prev = <<>> /\ mk = NoVal
    /\ steps = <<>> /\ entry = NoVal /\ mkmeta = NoVal
    /\ cwd = NoVal /\ readonly = {}

\* handle_no_mountpoint(hook, caller, root_location)
Guard ==
    /\ pc = "guard_call"
    /\ LET g == HandleNoMountpoint(hook, caller, root_location)
       IN  /\ ret' = g.res
           /\ warns' = warns \o g.warns
    /\ pc' = "guard_done"
    /\ UNCHANGED <<cmd, caller, root_location, fs, fs0, uc, original, marker,
                   key, c, out, hook, app, prev, mk, steps, entry, mkmeta, cwd,
                   readonly>>

NextGuard == Guard

SpecGuard == InitGuard /\ [][NextGuard]_vars

InSeq(x, q) == \E i \in 1..Len(q) : q[i] = x

\* C6 as stated: with "/" and abort_if_no_mount the guard fails with the 'to
\* be run with a mountpoint' error (BadHookCmd) for each of the three callers.
C6_AbortErrorForEveryCaller ==
    (pc = "guard_done" /\ root_location = <<"/">> /\ hook.abort_if_no_mount)
        => ret = ErrNeedsMountpoint

\* C6 as amended: with "/" and abort_if_no_mount the guard fails for every
\* caller, with the BadHookCmd error for Cli and with the internal invariant
\* violation (AliRsBug) for the two manifest callers.
C6_AbortFailsForEveryCaller ==
    (pc = "guard_done" /\ root_location = <<"/">> /\ hook.abort_if_no_mount)
        => /\ IsErr(ret)
           /\ caller = "Cli" => ret = ErrNeedsMountpoint
           /\ caller \in {"ManifestChroot", "ManifestPostInstall"}
                 => ret = ErrRootForManifest

C6_Witness ==
    /\ pc = "guard_done"
    /\ root_location = <<"/">>
    /\ hook.abort_if_no_mount
    /\ caller = "Cli"
    /\ ret = ErrNeedsMountpoint

\* C7: the guard fails exactly when the mountpoint is "/" and the caller is a
\* manifest caller or the hook declares abort_if_no_mount; a manifest caller
\* with "/" gets the internal invariant violation; any other mountpoint
\* passes, and a non-preferred caller is warned about and never fails.
C7_GuardFailsIff ==
    pc = "guard_done" =>
        /\ IsErr(ret) <=>
              /\ root_location = <<"/">>
              /\ \/ caller \in {"ManifestChroot", "ManifestPostInstall"}
                 \/ hook.abort_if_no_mount
        /\ (root_location = <<"/">> /\ caller # "Cli") => ret = ErrRootForManifest
        /\ root_location # <<"/">> => IsOk(ret)
        /\ IsOk(ret) =>
              (caller \notin hook.preferred_callers <=> InSeq(WarnNonPreferred, warns))

C7_Witness ==
    /\ pc = "guard_done"
    /\ root_location = <<"/", "/">>
    /\ caller = "ManifestChroot"
    /\ caller \notin hook.preferred_callers
    /\ hook.abort_if_no_mount
    /\ IsOk(ret)
    /\ InSeq(WarnNonPreferred, warns)

-----------------------------------------------------------------------------
(* The mkinitcpio hook, called on a command *)

\* argument words: a preset alias, an unknown preset, a quoted hooks list,
\* binaries, a key parse ignores (twice, with two values), a word without "="
MkArgWords ==
    { KEY_BOOT_HOOK \o <<"=", "l", "v", "m">>,
      KEY_BOOT_HOOK \o <<"=", "z", "f", "s">>,
      <<"\"">> \o KEY_HOOKS \o <<"=", "a", " ", "b", "\"">>,
      KEY_BINARIES \o <<"=", "b">>,
      <<"f", "o", "o", "=", "1">>, <<"f", "o", "o", "=", "2">>,
      <<"x">> }

MkKeys == {MKINITCPIO, MKINITCPIO_PRINT, BogusKey}

MkCmds ==
    {JoinWords(<<k>> \o args) : k \in MkKeys, args \in SeqsUpTo(MkArgWords, MaxMkArgs)}
        \cup {MKINITCPIO \o <<" ", "'", "x">>}

MkConfPath == <<"/", "e", "t", "c", "/", "m", "k", "i", "n", "i", "t", "c", "p", "i", "o", ".", "c", "o", "n", "f">>

MkFiles == { [p \in {MkConfPath} |-> Some(<<"H", "O", "O", "K", "S", "=", "(", ")">>)] }

InitMk ==
    /\ pc = "mk_call"
    /\ cmd \in MkCmds
    /\ caller \in Callers
    /\ root_location \in { <<"/">>, <<"/", "m", "n", "t">> }
    /\ fs \in MkFiles
    /\ fs0 = fs
    /\ uc = NoVal /\ original = <<>> /\ marker = <<>> /\ key = <<>> /\ c = 0
    /\ ret = NoVal /\ out = <<>> /\ warns = <<>> /\ hook = NoVal /\ app = 1
    /\ prev = <<>> /\ mk = NoVal
    /\ steps = <<>> /\ entry = NoVal /\ mkmeta = NoVal
    /\ cwd = NoVal /\ readonly = {}

\* mkinitcpio(cmd, caller, root_location); mk keeps what parse(cmd) returned
MkinitcpioCall ==
    /\ pc = "mk_call"
    /\ \E r \in {Mkinitcpio(cmd, caller, root_location, fs)} :
           /\ ret' = r.res
           /\ out' = out \o r.out
           /\ fs' = r.fs
    /\ mk' = Parse(cmd)
    /\ pc' = "mk_done"
    /\ UNCHANGED <<cmd, caller, root_location, fs0, uc, original, marker, key,
                   c, warns, hook, app, prev, steps, entry, mkmeta, cwd,
                   readonly>>

NextMk == MkinitcpioCall

SpecMk == InitMk /\ [][NextMk]_vars

\* the keys of the key=value words among the arguments of the command
ArgKeys ==
    LET sp == ShlexSplit(cmd)
    IN  IF ~sp.ok \/ sp.parts = <<>> THEN <<>>
        ELSE LET kvs == KeysVals(Tail(sp.parts))
             IN  [i \in 1..Len(kvs) |-> kvs[i][1]]

\* C5 as stated: a normal-mode mkinitcpio command always fails with
\* NotImplemented('write files') and writes no file.
C5_AlwaysNotImplemented ==
    (pc = "mk_done" /\ HookKey(cmd) = MKINITCPIO)
        => ret = ErrNotImplemented /\ fs = fs0

\* C5 as amended: a normal-mode mkinitcpio command never returns Ok and
\* writes no file; its error is NotImplemented('write files') exactly when the
\* command parses and the mountpoint check passes, the failure of parse when
\* it does not parse, and the error of the mountpoint check otherwise.
C5_NeverOkNeverWrites ==
    (pc = "mk_done" /\ HookKey(cmd) = MKINITCPIO)
        => /\ ~IsOk(ret)
           /\ fs = fs0
           /\ ~IsOk(mk) => ret = mk
           /\ IsOk(mk) =>
                 ret = IF IsOk(WarnIfNoMountpoint(caller, root_location))
                       THEN ErrNotImplemented
                       ELSE WarnIfNoMountpoint(caller, root_location)

C5_Witness ==
    /\ pc = "mk_done"
    /\ HookKey(cmd) = MKINITCPIO
    /\ caller = "ManifestChroot"
    /\ Len(ArgKeys) = 2
    /\ ret = ErrNotImplemented
    /\ fs = fs0

\* C9: a command that supplies both a boot_hook key and a hooks key is
\* rejected, in either order and whatever surrounds them; no configuration
\* parse returns has both the preset and the hooks list set.
C9_BootHookExcludesHooks ==
    pc = "mk_done" =>
        /\ (InSeq(KEY_BOOT_HOOK, ArgKeys) /\ InSeq(KEY_HOOKS, ArgKeys)) => ~IsOk(mk)
        /\ IsOk(mk) => ~(mk.val.boot_hook # NoVal /\ mk.val.hooks # NoVal)

\* hooks then a valid boot_hook, with other words around them, met the last
\* check of parse
C9_Witness ==
    /\ pc = "mk_done"
    /\ Len(ArgKeys) = 3
    /\ ArgKeys[1] = KEY_HOOKS
    /\ ArgKeys[3] = KEY_BOOT_HOOK
    /\ mk = ErrExclusive

\* C10: a command in which two key=value words have the same key is rejected,
\* whichever key repeats and wherever the words stand; a command whose keys
\* are pairwise distinct is never rejected as a duplicate.
C10_DuplicateKeyRejected ==
    pc = "mk_done" =>
        LET repeats == \E i, j \in 1..Len(ArgKeys) : i < j /\ ArgKeys[i] = ArgKeys[j]
        IN  /\ repeats => ~IsOk(mk)
            /\ ~repeats => mk # ErrDuplicateKey

\* a key parse ignores, given twice with another word between, was rejected
\* as a duplicate
C10_Witness ==
    /\ pc = "mk_done"
    /\ Len(ArgKeys) = 3
    /\ ArgKeys[1] = <<"f", "o", "o">>
    /\ ArgKeys[3] = <<"f", "o", "o">>
    /\ ArgKeys[2] = KEY_BINARIES
    /\ mk = ErrDuplicateKey

-----------------------------------------------------------------------------
(* The uncomment hook: execution *)

\* the file uncomment reads and writes: under root_location for the
\* post-install and the interactive caller, the path as given otherwise
UncommentTarget(u, clr, root) ==
    IF clr \in {"ManifestPostInstall", "Cli"}
    THEN root \o <<"/">> \o u.file
    ELSE u.file

\* a path with runs of slashes collapsed to one slash, from index i on
RECURSIVE CollapseSlashes(_, _)
CollapseSlashes(p, i) ==
    IF i > Len(p) THEN <<>>
    ELSE IF p[i] = "/" /\ i > 1 /\ p[i - 1] = "/" THEN CollapseSlashes(p, i + 1)
    ELSE <<p[i]>> \o CollapseSlashes(p, i + 1)

\* the file a path names to std::fs: a relative path is taken from the
\* working directory dir
ResolvePath(p, dir) ==
    IF p # <<>> /\ p[1] = "/" THEN CollapseSlashes(p, 1)
    ELSE CollapseSlashes(dir \o <<"/">> \o p, 1)

\* whether two paths name one file
SameFile(p, q, dir) == ResolvePath(p, dir) = ResolvePath(q, dir)

\* std::fs::read_to_string: NoVal when the file cannot be read
ReadFile(files, dir, path) ==
    IF \E p \in DOMAIN files : SameFile(p, path, dir)
    THEN files[CHOOSE p \in DOMAIN files : SameFile(p, path, dir)]
    ELSE NoVal

\* whether std::fs::write to the path succeeds
CanWrite(ro, dir, path) == \A p \in ro : ~SameFile(p, path, dir)

\* the files after a successful std::fs::write, under every path that names
\* the file written
WriteFile(files, dir, path, text) ==
    [p \in DOMAIN files |->
        IF SameFile(p, path, dir) THEN Some(text) ELSE files[p]]

ErrReadOriginal == Err("FileError", "read original file to uncomment")
ErrWriteUncommented == Err("FileError", "write uncommented to")

\* Uncomment::to_string inside ActionHook::Uncomment
UncommentAudit(u) ==
    [hook |-> "Uncomment",
     record |-> [comment_marker |-> u.marker, pattern |-> u.pattern, file |-> u.file]]

\* the end of uncomment with print_only ignored: the file is always written
UncommentEmitAlwaysWrites(u, target, uncommented, files, ro, dir) ==
    IF CanWrite(ro, dir, target)
    THEN [res |-> Ok(UncommentAudit(u)), out |-> <<>>,
          fs |-> WriteFile(files, dir, target, uncommented)]
    ELSE [res |-> ErrWriteUncommented, out |-> <<>>, fs |-> files]

\* the end of uncomment: print the text in print mode, else write it to the
\* target, which may fail; the value returned, the lines printed and the
\* files afterwards
UncommentEmit(u, target, uncommented, files, ro, dir) ==
    IF u.print_only
    THEN [res |-> Ok(UncommentAudit(u)), out |-> <<uncommented>>, fs |-> files]
    ELSE IF CanWrite(ro, dir, target)
    THEN [res |-> Ok(UncommentAudit(u)), out |-> <<>>,
          fs |-> WriteFile(files, dir, target, uncommented)]
    ELSE [res |-> ErrWriteUncommented, out |-> <<>>, fs |-> files]

-----------------------------------------------------------------------------
(* The dispatcher: apply_hook and validate_hook *)

ErrEmptyHook == Err("BadManifest", "empty hook")
ErrUnknownHookKey == Err("BadArgs", "unknown hook key")

UncommentKeys == {UNCOMMENT, UNCOMMENT_PRINT, UNCOMMENT_ALL, UNCOMMENT_ALL_PRINT}

MkinitcpioKeys == {MKINITCPIO, MKINITCPIO_PRINT}

UncommentUsage ==
    <<"<", "P", "A", "T", "T", "E", "R", "N", ">", " ", "[", "m", "a", "r", "k", "e", "r", " ", "<", "C", "O", "M", "M", "E", "N", "T", "_", "M", "A", "R", "K", "E", "R", "=", "\"", "#", "\"", ">", "]", " ", "F", "I", "L", "E">>

\* uncomment::new(key) with the metadata MetaUncomment declares
NewUncomment(k) ==
    [family |-> "Uncomment",
     base_key |-> UNCOMMENT,
     usage |-> UncommentUsage,
     mode |-> IF k \in {UNCOMMENT, UNCOMMENT_ALL} THEN "Normal" ELSE "Print",
     should_chroot |-> FALSE,
     preferred_callers |-> AllCallers,
     abort_if_no_mount |-> FALSE]

\* the usage text of the mkinitcpio wrapper
MkinitcpioUsage == <<"[", "k", "e", "y", "=", "v", "a", "l", "u", "e", "]">>

\* the metadata the mkinitcpio wrapper may declare: it is chroot-aware; the
\* callers it prefers and whether it aborts without a mountpoint are open
MkinitcpioMetas ==
    [abort_if_no_mount : BOOLEAN,
     preferred_callers : {AllCallers, {"ManifestChroot"}}]

\* mkinitcpio::new(key) with the metadata meta
NewMkinitcpio(k, meta) ==
    [family |-> "Mkinitcpio",
     base_key |-> MKINITCPIO,
     usage |-> MkinitcpioUsage,
     mode |-> IF k = MKINITCPIO THEN "Normal" ELSE "Print",
     should_chroot |-> TRUE,
     preferred_callers |-> meta.preferred_callers,
     abort_if_no_mount |-> meta.abort_if_no_mount]

\* init_blank_hook for the hook families at hand
InitBlankHook(k, meta) ==
    IF k \in MkinitcpioKeys THEN Ok(NewMkinitcpio(k, meta))
    ELSE IF k \in UncommentKeys THEN Ok(NewUncomment(k))
    ELSE ErrUnknownHookKey

\* HookWrapper::hook_key
HookKeyOf(h) ==
    IF h.mode = "Normal" THEN h.base_key
    ELSE h.base_key \o <<"-", "p", "r", "i", "n", "t">>

\* HookWrapper::help: the line printed
Help(h) == HookKeyOf(h) \o <<":", " ">> \o h.usage

\* h.try_parse(cmd): the value returned, and uc and mk afterwards
TryParseHook(h, s, old_uc, old_mk) ==
    IF h.family = "Uncomment"
    THEN [res |-> TryParseUncomment(s, old_uc).res,
          uc |-> TryParseUncomment(s, old_uc).uc,
          mk |-> old_mk]
    ELSE [res |-> (IF IsOk(Parse(s)) THEN Ok(<<>>) ELSE Parse(s)),
          uc |-> old_uc,
          mk |-> (IF IsOk(Parse(s)) THEN Parse(s) ELSE old_mk)]

\* parse_validate consulting the guard whatever should_chroot says
GuardDueAlways(h) == TRUE

\* if h.should_chroot()
GuardDue(h) == h.should_chroot

\* an entry point that runs the hook whichever it is
RunsHookAlways(e) == TRUE

\* apply_hook runs the hook parse_validate returned, validate_hook drops it
RunsHook(e) == e = "apply_hook"

\* parse_validate up to init_blank_hook(key)?
DispatchKey ==
    /\ pc = "pv_key"
    /\ IF SplitWhitespace(cmd) = <<>>
       THEN /\ ret' = ErrEmptyHook
            /\ pc' = "returned"
            /\ UNCHANGED <<hook, steps>>
       ELSE \E h \in {InitBlankHook(HookKey(cmd), mkmeta)} :
               /\ steps' = Append(steps, "init_blank_hook")
               /\ IF IsOk(h)
                  THEN /\ hook' = h.val
                       /\ pc' = "pv_parse"
                       /\ UNCHANGED ret
                  ELSE /\ ret' = h
                       /\ pc' = "returned"
                       /\ UNCHANGED hook
    /\ UNCHANGED <<cmd, caller, root_location, fs, fs0, uc, original, marker,
                   key, c, out, warns, app, prev, mk, entry, mkmeta, cwd,
                   readonly>>

\* parse_validate: h.try_parse(cmd)
DispatchTryParse ==
    /\ pc = "pv_parse"
    /\ \E t \in {TryParseHook(hook, cmd, uc, mk)} :
           /\ ret' = t.res
           /\ uc' = t.uc
           /\ mk' = t.mk
           /\ pc' = IF IsOk(t.res) THEN "pv_guard" ELSE "pv_help"
    /\ steps' = Append(steps, "try_parse")
    /\ UNCHANGED <<cmd, caller, root_location, fs, fs0, original, marker, key,
                   c, out, warns, hook, app, prev, entry, mkmeta, cwd,
                   readonly>>

\* parse_validate: h.help() and return Err(err) after try_parse failed
DispatchHelp ==
    /\ pc = "pv_help"
    /\ out' = Append(out, Help(hook))
    /\ steps' = Append(steps, "help")
    /\ pc' = "returned"
    /\ UNCHANGED <<cmd, caller, root_location, fs, fs0, uc, original, marker,
                   key, c, ret, warns, hook, app, prev, mk, entry, mkmeta, cwd,
                   readonly>>

\* parse_validate: if h.should_chroot() { handle_no_mountpoint(...)? }
DispatchGuard ==
    /\ pc = "pv_guard"
    /\ IF GuardDue(hook)
       THEN \E g \in {HandleNoMountpoint(hook, caller, root_location)} :
               /\ warns' = warns \o g.warns
               /\ steps' = Append(steps, "handle_no_mountpoint")
               /\ ret' = g.res
               /\ pc' = IF IsOk(g.res) THEN "pv_ok" ELSE "returned"
       ELSE /\ pc' = "pv_ok"
            /\ UNCHANGED <<warns, steps, ret>>
    /\ UNCHANGED <<cmd, caller, root_location, fs, fs0, uc, original, marker,
                   key, c, out, hook, app, prev, mk, entry, mkmeta, cwd,
                   readonly>>

\* after parse_validate returned Ok(h): validate_hook returns Ok(()),
\* apply_hook calls h.run_hook(caller, root_location)
DispatchRun ==
    /\ pc = "pv_ok"
    /\ IF RunsHook(entry)
       THEN /\ steps' = Append(steps, "run_hook")
            /\ pc' = IF hook.family = "Uncomment" THEN "parse_done" ELSE "mk_call"
            /\ ret' = Ok(<<>>)
       ELSE /\ ret' = Ok(<<>>)
            /\ pc' = "returned"
            /\ UNCHANGED steps
    /\ UNCHANGED <<cmd, caller, root_location, fs, fs0, uc, original, marker,
                   key, c, out, warns, hook, app, prev, mk, entry, mkmeta, cwd,
                   readonly>>

-----------------------------------------------------------------------------
(* Hooks run on files, once and again *)

\* runs of the same command in a row
MaxRuns == 2

HookFile == <<"f">>

HookRoots == { <<"/">>, <<"/", "m", "n", "t">> }

HookPaths == {HookFile} \cup {r \o <<"/">> \o HookFile : r \in HookRoots}

\* the document of a file that exists: P is commented in it twice, Q is not
HookDocs == { <<"#", "P", "\n", "#", " ", "P">> }

\* working directories: in the first the relative path of the file and the
\* path under the root "/" name one file
HookCwds == { <<"/">>, <<"/", "c", "w", "d">> }

\* the contents of the files, equal under paths that name one file
HookFiles(dir) ==
    {f \in [HookPaths -> {NoVal} \cup {Some(d) : d \in HookDocs}] :
        \A p, q \in HookPaths : SameFile(p, q, dir) => f[p] = f[q]}

\* the sets of paths that cannot be written: files that exist, whole files
\* at a time
ReadonlySets(files, dir) ==
    {R \in SUBSET {p \in HookPaths : files[p] # NoVal} :
        \A p, q \in HookPaths : (SameFile(p, q, dir) /\ p \in R) => q \in R}

PrintKeys == {UNCOMMENT_PRINT, UNCOMMENT_ALL_PRINT, MKINITCPIO_PRINT}

HookCmds ==
    {JoinWords(<<k>> \o args) :
        k \in UncommentKeys,
        args \in { <<<<"P">>, HookFile>>, <<<<"Q">>, HookFile>>, <<<<"P">>>> }}
    \cup {JoinWords(<<k>> \o args) :
        k \in MkinitcpioKeys,
        args \in { <<KEY_BOOT_HOOK \o <<"=", "l", "v", "m">>, KEY_BINARIES \o <<"=", "b">>>>,
                   <<>> }}
    \cup { <<>>, BogusKey \o <<" ", "P", " ">> \o HookFile }

\* apply_hook(cmd, caller, root_location) is called
InitHook ==
    /\ cmd \in HookCmds
    /\ pc = "pv_key"
    /\ entry = "apply_hook"
    /\ caller \in Callers
    /\ root_location \in HookRoots
    /\ cwd \in HookCwds
    /\ fs \in HookFiles(cwd)
    /\ readonly \in ReadonlySets(fs, cwd)
    /\ fs0 = fs
    /\ mkmeta \in MkinitcpioMetas
    /\ uc = NoVal /\ original = <<>> /\ marker = <<>> /\ key = <<>> /\ c = 0
    /\ ret = NoVal /\ out = <<>> /\ warns = <<>> /\ hook = NoVal /\ app = 1
    /\ prev = <<>> /\ mk = NoVal /\ steps = <<>>

\* uncomment up to the transform: the target is read; the once mode
\* transforms the text at once, the all mode enters its loop
UncommentBegin ==
    /\ pc = "parse_done"
    /\ IsOk(ret)
    /\ LET u == uc.val
           read == ReadFile(fs, cwd, UncommentTarget(u, caller, root_location))
       IN  IF read = NoVal
           THEN /\ ret' = ErrReadOriginal
                /\ pc' = "hook_done"
                /\ UNCHANGED <<original, marker, key, c>>
           ELSE /\ original' = read.val
                /\ marker' = u.marker
                /\ key' = u.pattern
                /\ c' = 0
                /\ IF u.mode = "All"
                   THEN /\ pc' = "all_loop"
                        /\ ret' = NoVal
                   ELSE LET once == UncommentTextOnce(read.val, u.marker, u.pattern)
                        IN  /\ ret' = once
                            /\ pc' = IF IsOk(once) THEN "unc_emit" ELSE "hook_done"
    /\ UNCHANGED <<cmd, caller, root_location, fs, fs0, uc, out, warns, hook,
                   app, prev, mk, steps, entry, mkmeta, cwd, readonly>>

\* uncomment from the transformed text on: print or write, then the audit
\* record, or the error of a write that failed
UncommentEnd ==
    /\ pc \in {"unc_emit", "all_returned"}
    /\ uc # NoVal
    /\ \E e \in {UncommentEmit(uc.val, UncommentTarget(uc.val, caller, root_location),
                               ret.val, fs, readonly, cwd)} :
           /\ out' = out \o e.out
           /\ fs' = e.fs
           /\ ret' = e.res
    /\ pc' = "hook_done"
    /\ UNCHANGED <<cmd, caller, root_location, fs0, uc, original, marker, key,
                   c, warns, hook, app, prev, mk, steps, entry, mkmeta, cwd,
                   readonly>>

\* whether the call of apply_hook has returned
HookFinished == pc \in {"returned", "hook_done", "mk_done"}

\* apply_hook is called again with the same command, on the files as the
\* last call left them
HookAgain ==
    /\ HookFinished
    /\ app < MaxRuns
    /\ prev' = Append(prev, [ret |-> ret, out |-> out, warns |-> warns])
    /\ app' = app + 1
    /\ pc' = "pv_key"
    /\ uc' = NoVal /\ original' = <<>> /\ marker' = <<>> /\ key' = <<>>
    /\ c' = 0 /\ ret' = NoVal /\ out' = <<>> /\ warns' = <<>> /\ mk' = NoVal
    /\ hook' = NoVal /\ steps' = <<>>
    /\ UNCHANGED <<cmd, caller, root_location, fs, fs0, entry, mkmeta, cwd,
                   readonly>>

NextHook ==
    \/ DispatchKey
    \/ DispatchTryParse
    \/ DispatchHelp
    \/ DispatchGuard
    \/ DispatchRun
    \/ UncommentBegin
    \/ AllIter
    \/ UncommentEnd
    \/ MkinitcpioCall
    \/ HookAgain

SpecHook == InitHook /\ [][NextHook]_vars

\* whether the key of the command selects print mode
PrintMode == HookKey(cmd) \in PrintKeys

\* C4: a print-mode command never changes the target files, whether it ends
\* with success or with an error, and run again it returns and prints what it
\* did the first time.
C4_PrintNeverMutates ==
    PrintMode =>
        /\ fs = fs0
        /\ (HookFinished /\ app >= 2) =>
              (ret = prev[1].ret /\ out = prev[1].out /\ warns = prev[1].warns)

\* the second run of an all-mode print command has printed an uncommented
\* text that differs from the file it read
C4_Witness ==
    /\ HookKey(cmd) = UNCOMMENT_ALL_PRINT
    /\ pc = "hook_done"
    /\ app = 2
    /\ IsOk(ret)
    /\ out # <<>>
    /\ Some(out[1]) # fs[UncommentTarget(uc.val, caller, root_location)]
    /\ fs = fs0

-----------------------------------------------------------------------------
(* validate_hook, then apply_hook with the same arguments *)

DispatchCmds ==
    { <<>>, <<" ", " ">>,
      BogusKey \o <<" ", "P", " ">> \o HookFile,
      UNCOMMENT \o <<" ", "P", " ">> \o HookFile,
      UNCOMMENT_PRINT \o <<" ", "P", " ">> \o HookFile,
      UNCOMMENT_ALL \o <<" ", "P", " ">> \o HookFile,
      UNCOMMENT_ALL_PRINT \o <<" ", "Q", " ">> \o HookFile,
      UNCOMMENT \o <<" ", "P">>,
      UNCOMMENT \o <<" ", "P", " ", "'">> \o HookFile,
      MKINITCPIO,
      MKINITCPIO \o <<" ">> \o KEY_BOOT_HOOK \o <<"=", "l", "v", "m">>,
      MKINITCPIO_PRINT \o <<" ">> \o KEY_BOOT_HOOK \o <<"=", "l", "v", "m">>,
      MKINITCPIO_PRINT \o <<" ">> \o KEY_HOOKS \o <<"=", "a", " ">>
          \o KEY_BOOT_HOOK \o <<"=", "l", "v", "m">> }

EntryPoints == {"apply_hook", "validate_hook"}

\* validate_hook(cmd, caller, root_location) is called; apply_hook follows
\* with the same arguments
InitDispatch ==
    /\ pc = "pv_key"
    /\ entry = "validate_hook"
    /\ cmd \in DispatchCmds
    /\ caller \in Callers
    /\ root_location \in HookRoots
    /\ cwd \in HookCwds
    /\ fs \in HookFiles(cwd)
    /\ readonly \in ReadonlySets(fs, cwd)
    /\ fs0 = fs
    /\ mkmeta \in MkinitcpioMetas
    /\ uc = NoVal /\ original = <<>> /\ marker = <<>> /\ key = <<>> /\ c = 0
    /\ ret = NoVal /\ out = <<>> /\ warns = <<>> /\ hook = NoVal /\ app = 1
    /\ prev = <<>> /\ mk = NoVal /\ steps = <<>>

\* whether the entry point has returned
DispatchReturned == pc \in {"returned", "hook_done", "mk_done"}

\* apply_hook is called with the arguments validate_hook was called with
DispatchApply ==
    /\ entry = "validate_hook"
    /\ DispatchReturned
    /\ prev' = Append(prev, [ret |-> ret, out |-> out, warns |-> warns,
                             steps |-> steps, fs |-> fs])
    /\ entry' = "apply_hook"
    /\ app' = app + 1
    /\ pc' = "pv_key"
    /\ uc' = NoVal /\ original' = <<>> /\ marker' = <<>> /\ key' = <<>>
    /\ c' = 0 /\ ret' = NoVal /\ out' = <<>> /\ warns' = <<>> /\ mk' = NoVal
    /\ hook' = NoVal /\ steps' = <<>>
    /\ UNCHANGED <<cmd, caller, root_location, fs, fs0, mkmeta, cwd,
                   readonly>>

NextDispatch ==
    \/ DispatchKey
    \/ DispatchTryParse
    \/ DispatchHelp
    \/ DispatchGuard
    \/ DispatchRun
    \/ UncommentBegin
    \/ AllIter
    \/ UncommentEnd
    \/ MkinitcpioCall
    \/ DispatchApply

SpecDispatch == InitDispatch /\ [][NextDispatch]_vars

\* the positions of parse_validate and of the return of an entry point
DispatcherPcs == {"pv_key", "pv_parse", "pv_help", "pv_guard", "pv_ok", "returned"}

\* C11: validate_hook walks the steps of apply_hook up to the run and stops
\* there: it never runs the hook (no file is read or written, no audit record
\* is returned); it returns an error exactly when apply_hook, called with the
\* same arguments, fails before it runs the hook, with the same error after
\* the same steps, output and warnings, and Ok(()) otherwise.
C11_ValidateIsApplyWithoutRun ==
    /\ entry = "validate_hook" =>
          /\ pc \in DispatcherPcs
          /\ ~InSeq("run_hook", steps)
          /\ fs = fs0
          /\ (pc = "returned" /\ IsOk(ret)) => ret = Ok(<<>>)
    /\ (entry = "apply_hook" /\ (pc = "returned" \/ InSeq("run_hook", steps))) =>
          /\ IsOk(prev[1].ret) \/ IsErr(prev[1].ret)
          /\ IsErr(prev[1].ret) <=> ~InSeq("run_hook", steps)
          /\ IsErr(prev[1].ret) =>
                /\ ret = prev[1].ret
                /\ steps = prev[1].steps
                /\ out = prev[1].out
                /\ warns = prev[1].warns
          /\ IsOk(prev[1].ret) =>
                /\ prev[1].ret = Ok(<<>>)
                /\ steps = Append(prev[1].steps, "run_hook")
                /\ warns = prev[1].warns
                /\ prev[1].out = <<>>
                /\ prev[1].fs = fs0

\* apply_hook has rewritten a file that validate_hook, called before with the
\* same arguments, accepted and left as it was
C11_Witness ==
    /\ entry = "apply_hook"
    /\ pc = "hook_done"
    /\ IsOk(ret)
    /\ prev[1].ret = Ok(<<>>)
    /\ prev[1].fs = fs0
    /\ fs # fs0

\* whether the command has a leading key and the registry knows it
KeyKnown ==
    /\ SplitWhitespace(cmd) # <<>>
    /\ HookKey(cmd) \in UncommentKeys \cup MkinitcpioKeys

\* whether the hook of the key rejects the command
ParseFails ==
    IF HookKey(cmd) \in UncommentKeys
    THEN ~IsOk(ParseUncomment(cmd))
    ELSE ~IsOk(Parse(cmd))

\* the steps of a call that reached run_hook with the hook h
StepsToRun(h) ==
    <<"init_blank_hook", "try_parse">>
        \o (IF h.should_chroot THEN <<"handle_no_mountpoint">> ELSE <<>>)
        \o <<"run_hook">>

\* C12: the dispatcher resolves the key first and rejects a missing or
\* unknown key before any try_parse; when try_parse fails the usage text is
\* printed, then the error is returned, and neither the guard nor the run
\* happens; the guard is consulted only after a successful parse and only for
\* a hook with should_chroot(); the run is reached only after every earlier
\* step succeeded.
C12_DispatchOrder ==
    /\ steps # <<>> => steps[1] = "init_blank_hook"
    /\ ~KeyKnown =>
          /\ pc \in {"pv_key", "returned"}
          /\ hook = NoVal
          /\ ~InSeq("try_parse", steps)
          /\ pc = "returned" => ret \in {ErrEmptyHook, ErrUnknownHookKey}
    /\ InSeq("try_parse", steps) =>
          /\ KeyKnown
          /\ Len(steps) >= 2 /\ steps[2] = "try_parse"
    /\ (KeyKnown /\ ParseFails) =>
          /\ pc \in {"pv_key", "pv_parse", "pv_help", "returned"}
          /\ ~InSeq("handle_no_mountpoint", steps)
          /\ ~InSeq("run_hook", steps)
          /\ pc = "pv_help" => (out = <<>> /\ IsErr(ret))
          /\ pc = "returned" =>
                /\ steps = <<"init_blank_hook", "try_parse", "help">>
                /\ out = <<Help(hook)>>
                /\ IsErr(ret)
    /\ InSeq("help", steps) => (ParseFails /\ pc = "returned")
    /\ InSeq("handle_no_mountpoint", steps) =>
          /\ KeyKnown /\ ~ParseFails
          /\ hook.should_chroot
          /\ Len(steps) >= 3 /\ steps[3] = "handle_no_mountpoint"
    /\ InSeq("run_hook", steps) =>
          /\ entry = "apply_hook"
          /\ KeyKnown /\ ~ParseFails
          /\ hook.should_chroot =>
                IsOk(HandleNoMountpoint(hook, caller, root_location).res)
          /\ steps = StepsToRun(hook)

\* try_parse of a chroot-aware hook failed: the usage text was printed and
\* the error returned, with no guard and no run
C12_Witness ==
    /\ pc = "returned"
    /\ hook # NoVal
    /\ hook.should_chroot
    /\ steps = <<"init_blank_hook", "try_parse", "help">>
    /\ out = <<Help(hook)>>
    /\ IsErr(ret)

-----------------------------------------------------------------------------
(* The result of the all mode *)

\* the indices at which pat occurs in s
OccurrencesOf(s, pat) == {p \in 1..(Len(s) + 1) : OccursAt(s, pat, p)}

\* whether no two occurrences of pat in s overlap
Disjoint(s, pat) ==
    \A p, q \in OccurrencesOf(s, pat) : p < q => p + Len(pat) <= q

\* s with the characters of every occurrence of pat taken out and to put in
\* their place, character by character
RECURSIVE EveryReplacedFrom(_, _, _, _)
EveryReplacedFrom(s, pat, to, i) ==
    IF i > Len(s) THEN <<>>
    ELSE (IF i \in OccurrencesOf(s, pat) THEN to
          ELSE IF \E p \in OccurrencesOf(s, pat) : p < i /\ i < p + Len(pat)
               THEN <<>>
               ELSE <<s[i]>>)
         \o EveryReplacedFrom(s, pat, to, i + 1)

EveryReplaced(s, pat, to) == EveryReplacedFrom(s, pat, to, 1)

\* the widths at which k is commented in s
CommentedWidths(s, m, k) ==
    {w \in 0..WidthCap(s) : OccurrencesOf(s, CommentPattern(m, w, k)) # {}}

\* s with every occurrence of k commented at the smallest width uncommented
Uncommented(s, m, k) ==
    EveryReplaced(s, CommentPattern(m, Min(CommentedWidths(s, m, k)), k), k)

\* the second application of a chain, run with another key than the first
SecondOtherKey == app = 2 /\ key # prev[1].key

\* whether one of the two keys of the chain occurs inside the other
NestedKeys == Contains(key, prev[1].key) \/ Contains(prev[1].key, key)

\* C13: the all mode, when it returns, returns the document with every
\* occurrence of marker + w spaces + pattern replaced by the pattern, w being
\* the smallest width whose replacement changes the document; what is
\* commented at a larger width stays. A second application with another
\* pattern, when it returns, returns the text with both uncommented; when
\* neither pattern occurs inside the other, the second pattern is found at the
\* width it had in the first document and the order of the two does not
\* matter.
C13_AllResult ==
    /\ pc = "all_returned" =>
          /\ c = Min({w \in 0..WidthCap(original) : ChangesAt(w)})
          /\ Disjoint(original, CommentPattern(marker, c, key))
          /\ ret.val = EveryReplaced(original, CommentPattern(marker, c, key), key)
          /\ \A w \in (c + 1)..WidthCap(original) :
                Cardinality(OccurrencesOf(ret.val, CommentPattern(marker, w, key)))
                    >= Cardinality(OccurrencesOf(original, CommentPattern(marker, w, key)))
    /\ (SecondOtherKey /\ pc = "all_returned") =>
          ret.val = Uncommented(Uncommented(prev[1].original, marker, prev[1].key),
                                marker, key)
    /\ (SecondOtherKey /\ ~NestedKeys
            /\ CommentedWidths(prev[1].original, marker, key) # {}) =>
          /\ SomeWidthChanges
          /\ pc = "all_returned" =>
                /\ c = Min(CommentedWidths(prev[1].original, marker, key))
                /\ ret.val = Uncommented(Uncommented(prev[1].original, marker, key),
                                        marker, prev[1].key)

\* the first application uncommented two occurrences of its pattern at width
\* 0 and the second, with another pattern, returned at a larger width
C13_Witness ==
    /\ SecondOtherKey
    /\ pc = "all_returned"
    /\ prev[1].c = 0
    /\ Cardinality(OccurrencesOf(prev[1].original,
                                 CommentPattern(marker, 0, prev[1].key))) = 2
    /\ c = 2
    /\ ~Contains(ret.val, marker)

=============================================================================
